---- MODULE Spec2Model ----
(***************************************************************************)
(* A model of the go-harvest client library (package harvest): the request *)
(* builder (addOptions, NewRequest), the dispatcher (Client.Do), the error *)
(* classifier (CheckResponse), the pagination helper (populatePageValues)  *)
(* and the one resource operation (TimeEntriesService.List).               *)
(*                                                                         *)
(* A call of List is modelled in the steps the code takes around its one   *)
(* blocking point, the transport call c.client.Do(req):                    *)
(*   ListCall         addOptions, NewRequest and the entry of Do           *)
(*   TransportRespond the transport returns a response; the rest of Do and *)
(*                    of List runs                                         *)
(*   TransportFail    the transport returns an error; the rest of Do and   *)
(*                    of List runs                                         *)
(*   CancelCtx        the caller's context is cancelled or times out       *)
(*   Return           the caller takes the result                          *)
(* Configure is the caller setting the exported fields of the Client       *)
(* before the first request.                                               *)
(***************************************************************************)
EXTENDS Integers, Sequences, FiniteSets, TLC

VARIABLES
    client,         \* the shared *Client
    configured,     \* the Client as NewClient and the caller's set-up left it
    started,        \* TRUE once some call has been issued on the client
    pc,             \* pc[i]: "idle" | "inflight" | "done"
    ctx,            \* ctx[i]: "nil" | "live" | "canceled" | "deadline"
    opts,           \* opts[i]: the *TimeEntriesListOptions passed to List
    req,            \* req[i]: the *http.Request List built
    ctxAtDispatch,  \* ctx[i] as it was when the transport was invoked
    transportCalls, \* how often call i invoked the transport
    net,            \* net[i]: what the transport returned to call i
    page,           \* page[i]: List's local page, the destination handed to Do
    ret             \* ret[i]: what List returned

vars == <<client, configured, started, pc, ctx, opts, req, ctxAtDispatch, transportCalls, net, page, ret>>

----------------------------------------------------------------------------
(* Bounds of the model *)

NCalls == 2
MaxPage == 3
MaxEntries == 2

Calls == 1..NCalls

----------------------------------------------------------------------------
(* Constants of the program *)

StatusSuccessLow == 200
StatusSuccessHigh == 299
StatusAccepted == 202
StatusUnauthorized == 401
FirstPageNumber == 1

defaultBaseURL == [Scheme |-> "https", Host |-> "api.harvestapp.com", Path |-> <<"/">>]
defaultApiVersion == <<"v2", "/">>
userAgent == "go-harvest"

----------------------------------------------------------------------------
(* Errors. One record shape for every error value, so that any two can be  *)
(* compared; type "nil" is the nil error.                                   *)

Err(type, status, code, desc) ==
    [type |-> type, StatusCode |-> status, ErrorCode |-> code, ErrorDescription |-> desc]

NoErr == Err("nil", 0, "", "")

IsErr(e) == e.type # "nil"

CtxErrorTypes == {"context.Canceled", "context.DeadlineExceeded"}

\* ctx.Done() is closed
CtxDone(c) == c \in {"canceled", "deadline"}

\* ctx.Err()
CtxErr(c) ==
    CASE c = "canceled" -> Err("context.Canceled", 0, "", "")
      [] c = "deadline" -> Err("context.DeadlineExceeded", 0, "", "")
      [] OTHER -> NoErr

----------------------------------------------------------------------------
(* JSON bodies.  A body is empty, unreadable (the read fails), malformed   *)
(* (bytes that are not JSON), a JSON value that is not an object, or a     *)
(* JSON object: a function from its keys to values.  A value carries its   *)
(* JSON type t and the payload of that type.                               *)

JStr(s) == [t |-> "str", s |-> s, n |-> 0, a |-> <<>>]
JNum(n) == [t |-> "num", s |-> "", n |-> n, a |-> <<>>]
\* an array of time entry objects, each {"id": n}
JArr(a) == [t |-> "arr", s |-> "", n |-> 0, a |-> a]

EmptyObject == [k \in {} |-> JNum(0)]

Body(kind, fields) == [kind |-> kind, fields |-> fields]

EmptyBody == Body("empty", EmptyObject)
MalformedBody == Body("malformed", EmptyObject)
UnreadableBody == Body("readerr", EmptyObject)
NonObjectBody == Body("nonobject", EmptyObject)

\* json: the body holds one syntactically valid JSON value
ValidJSON(b) == b.kind \in {"nonobject", "object"}

HasKey(b, k) == b.kind = "object" /\ k \in DOMAIN b.fields

\* the value stored into a string field tagged k; prior when the key is
\* missing or its value has another type
StrField(b, k, prior) ==
    IF HasKey(b, k) /\ b.fields[k].t = "str" THEN b.fields[k].s ELSE prior

IntField(b, k, prior) ==
    IF HasKey(b, k) /\ b.fields[k].t = "num" THEN b.fields[k].n ELSE prior

\* a key of ks whose value has not the JSON type the destination field wants
Mismatched(b, want) ==
    {k \in DOMAIN want : HasKey(b, k) /\ b.fields[k].t # want[k]}

----------------------------------------------------------------------------
(* The error classifier *)

\* an http.Response as the transport hands it over
HTTPResponse(status, body) == [StatusCode |-> status, Body |-> body]

\* json.Unmarshal(data, errorResponse) with its error dropped: a body that
\* is no valid JSON stores nothing; of a JSON object the two tagged string
\* fields are stored, a value of another type is skipped
UnmarshalErrorResponse(b, e) ==
    IF ValidJSON(b)
    THEN [e EXCEPT !.ErrorCode = StrField(b, "error", e.ErrorCode),
                   !.ErrorDescription = StrField(b, "error_description", e.ErrorDescription)]
    ELSE e

\* ioutil.ReadAll(r.Body) returned no error
ReadAllOk(b) == b.kind # "readerr"

\* the switch at the end of CheckResponse: the error's dynamic type
ErrorVariantForbiddenToo(status) ==
    IF status = StatusUnauthorized \/ status = 403 THEN "AuthError" ELSE "ErrorResponse"

ErrorVariant(status) ==
    IF status = StatusUnauthorized THEN "AuthError" ELSE "ErrorResponse"

\* the status test at the head of CheckResponse
StatusIsSuccess(c) == StatusSuccessLow <= c /\ c <= StatusSuccessHigh

CheckResponse(r) ==
    IF StatusIsSuccess(r.StatusCode)
    THEN NoErr
    ELSE LET errorResponse == Err("ErrorResponse", r.StatusCode, "", "")
             filled == IF ReadAllOk(r.Body)
                       THEN UnmarshalErrorResponse(r.Body, errorResponse)
                       ELSE errorResponse
         IN  [filled EXCEPT !.type = ErrorVariant(r.StatusCode)]

----------------------------------------------------------------------------
(* The pagination helper *)

Pagination(perPage, totalPages, totalEntries, nextPage, previousPage, pageNo) ==
    [PerPage |-> perPage, TotalPages |-> totalPages, TotalEntries |-> totalEntries,
     NextPage |-> nextPage, PreviousPage |-> previousPage, Page |-> pageNo]

ZeroPagination == Pagination(0, 0, 0, 0, 0, 0)

\* the Response wrapper; isNil is the nil *Response
Response(isNil, status) ==
    [isNil |-> isNil, StatusCode |-> status,
     NextPage |-> 0, PreviousPage |-> 0, FirstPage |-> 0, LastPage |-> 0]

NilResponse == Response(TRUE, 0)

newResponse(r) == Response(FALSE, r.StatusCode)

populatePageValuesNoPrevClamp(r, pagination) ==
    LET next == pagination.Page + 1
    IN  [r EXCEPT !.FirstPage = FirstPageNumber,
                  !.LastPage = pagination.TotalPages,
                  !.NextPage = IF next > pagination.TotalPages
                               THEN pagination.TotalPages ELSE next,
                  !.PreviousPage = pagination.Page - 1]

populatePageValuesNoNextClamp(r, pagination) ==
    LET prev == pagination.Page - 1
    IN  [r EXCEPT !.FirstPage = FirstPageNumber,
                  !.LastPage = pagination.TotalPages,
                  !.NextPage = pagination.Page + 1,
                  !.PreviousPage = IF prev < FirstPageNumber
                                   THEN FirstPageNumber ELSE prev]

populatePageValues(r, pagination) ==
    LET first == FirstPageNumber
        last == pagination.TotalPages
        next == pagination.Page + 1
        prev == pagination.Page - 1
    IN  [r EXCEPT !.FirstPage = first,
                  !.LastPage = last,
                  !.NextPage = IF next > last THEN last ELSE next,
                  !.PreviousPage = IF prev < first THEN first ELSE prev]

----------------------------------------------------------------------------
(* The response decoder *)

\* a []*TimeEntry; isNil is the nil slice.  An entry is modelled by its Id.
Slice(isNil, items) == [isNil |-> isNil, items |-> items]

NilSlice == Slice(TRUE, <<>>)

\* the Page struct local to List: the embedded Pagination and the entries
Page(pagination, entries) == [Pagination |-> pagination, TimeEntries |-> entries]

ZeroPage == Page(ZeroPagination, NilSlice)

\* the JSON type each tagged field of Page wants
PageFieldTypes ==
    [k \in {"per_page", "total_pages", "total_entries", "next_page", "previous_page", "page"}
        |-> "num"] @@ [k \in {"time_entries"} |-> "arr"]

\* json.NewDecoder(resp.Body).Decode(&page): the destination after the call
\* and the error.  Nothing is stored unless the body holds a JSON object; of
\* an object every key with a value of the field's type is stored, and a
\* value of another type is skipped and reported.
DecodePage(b, v) ==
    CASE b.kind = "empty" -> [v |-> v, err |-> Err("io.EOF", 0, "", "")]
      [] b.kind = "readerr" -> [v |-> v, err |-> Err("read", 0, "", "")]
      [] b.kind = "malformed" -> [v |-> v, err |-> Err("json.SyntaxError", 0, "", "")]
      [] b.kind = "nonobject" -> [v |-> v, err |-> Err("json.UnmarshalTypeError", 0, "", "")]
      [] OTHER ->
           LET p == v.Pagination
               stored ==
                 Page(Pagination(IntField(b, "per_page", p.PerPage),
                                 IntField(b, "total_pages", p.TotalPages),
                                 IntField(b, "total_entries", p.TotalEntries),
                                 IntField(b, "next_page", p.NextPage),
                                 IntField(b, "previous_page", p.PreviousPage),
                                 IntField(b, "page", p.Page)),
                      IF HasKey(b, "time_entries") /\ b.fields["time_entries"].t = "arr"
                      THEN Slice(FALSE, b.fields["time_entries"].a)
                      ELSE v.TimeEntries)
           IN  [v |-> stored,
                err |-> IF Mismatched(b, PageFieldTypes) = {}
                        THEN NoErr
                        ELSE Err("json.UnmarshalTypeError", 0, "", "")]

----------------------------------------------------------------------------
(* The dispatcher *)

\* what c.client.Do(req) returned: a response, or an error
Answered(status, body) == [ok |-> TRUE, resp |-> HTTPResponse(status, body)]
Failed == [ok |-> FALSE, resp |-> HTTPResponse(0, EmptyBody)]
NotSent == [ok |-> FALSE, resp |-> HTTPResponse(-1, EmptyBody)]

\* the first test of Do
CtxMissing(c) == c = "nil"

\* sanitizeURL is the identity, so the *url.Error comes back as it was
TransportError == Err("url.Error", 0, "", "")

\* Do's branch on a transport error, the context ignored
TransportFailureIgnoringCtx(c) == TransportError

\* Do's branch on a transport error: the context's error when it is done
TransportFailure(c) == IF CtxDone(c) THEN CtxErr(c) ELSE TransportError

\* the EOF test kept out: an empty body is reported
IgnoreEOFNot(decErr) == decErr

\* decErr == io.EOF is dropped: an empty body is no error
IgnoreEOF(decErr) == IF decErr.type = "io.EOF" THEN NoErr ELSE decErr

\* what Do returns: the wrapper, the error, and the destination v as Do
\* leaves it.  c is the context when the transport returns, out what the
\* transport returned, vkind the kind of destination ("nil", "writer",
\* "struct"), v the destination before the call.
DoResult(resp, err, v, copied) == [resp |-> resp, err |-> err, v |-> v, copied |-> copied]

Do(c, out, vkind, v) ==
    IF CtxMissing(c)
    THEN DoResult(NilResponse, Err("context must be non-nil", 0, "", ""), v, FALSE)
    ELSE IF ~out.ok
    THEN DoResult(NilResponse, TransportFailure(c), v, FALSE)
    ELSE LET response == newResponse(out.resp)
             err == CheckResponse(out.resp)
         IN  IF IsErr(err)
             THEN DoResult(response, err, v, FALSE)
             ELSE CASE vkind = "nil" -> DoResult(response, err, v, FALSE)
                    [] vkind = "writer" -> DoResult(response, err, v, TRUE)
                    [] OTHER ->
                         LET dec == DecodePage(out.resp.Body, v)
                             decErr == IgnoreEOF(dec.err)
                         IN  DoResult(response,
                                      IF IsErr(decErr) THEN decErr ELSE err,
                                      dec.v, FALSE)

----------------------------------------------------------------------------
(* The request builder *)

\* a *TimeEntriesListOptions; isNil is the nil pointer
Options(isNil, from, to, pageNo, perPage) ==
    [isNil |-> isNil, From |-> from, To |-> to, Page |-> pageNo, PerPage |-> perPage]

NilOptions == Options(TRUE, "", "", 0, 0)

\* url.QueryEscape on the strings of the model: a space becomes "+"
QueryEscape(s) ==
    CASE s = "1 jan" -> "1+jan"
      [] OTHER -> s

\* url.QueryUnescape, the server's reading of a value
QueryUnescape(s) ==
    CASE s = "1+jan" -> "1 jan"
      [] OTHER -> s

\* the url tags of TimeEntriesListOptions and of the embedded ListOptions,
\* every one with omitempty: query.Values keeps a field that is not the
\* zero value of its type, under the tag's name, formatted as a string
queryValuesPageAlways(o) ==
    (IF o.From # "" THEN "from" :> o.From ELSE EmptyObject)
    @@ (IF o.To # "" THEN "to" :> o.To ELSE EmptyObject)
    @@ ("page" :> ToString(o.Page))
    @@ (IF o.PerPage # 0 THEN "per_page" :> ToString(o.PerPage) ELSE EmptyObject)

queryValues(o) ==
    (IF o.From # "" THEN "from" :> o.From ELSE EmptyObject)
    @@ (IF o.To # "" THEN "to" :> o.To ELSE EmptyObject)
    @@ (IF o.Page # 0 THEN "page" :> ToString(o.Page) ELSE EmptyObject)
    @@ (IF o.PerPage # 0 THEN "per_page" :> ToString(o.PerPage) ELSE EmptyObject)

\* the keys url.Values.Encode may meet, in the order it sorts them
SortedKeys == <<"from", "page", "per_page", "to">>

Param(key, value) == [key |-> key, value |-> value]

\* url.Values.Encode: key=value joined by "&", sorted by key, the values
\* escaped; modelled as the sequence of its key=value parts
Encode(values) ==
    LET present(k) == k \in DOMAIN values
        keys == SelectSeq(SortedKeys, present)
    IN  [j \in 1..Len(keys) |-> Param(keys[j], QueryEscape(values[keys[j]]))]

\* a relative reference: path and query ("" is the empty sequence)
Ref(path, rawQuery) == [Path |-> path, RawQuery |-> rawQuery]

addOptions(s, o) ==
    IF o.isNil
    THEN Ref(s, <<>>)
    ELSE Ref(s, Encode(queryValues(o)))

\* a *Client
Client(baseURL, accessToken, accountId, agent) ==
    [BaseURL |-> baseURL, AccessToken |-> accessToken, AccountId |-> accountId,
     UserAgent |-> agent]

NewClient(accessToken, accountId) ==
    Client(defaultBaseURL, accessToken, accountId, userAgent)

\* strings.HasSuffix(path, "/"), a path being its "/" and segment tokens
HasSuffixSlash(path) == Len(path) > 0 /\ path[Len(path)] = "/"

\* the path up to and with its last "/"
RECURSIVE DirOf(_)
DirOf(path) ==
    IF path = <<>> \/ path[Len(path)] = "/"
    THEN path
    ELSE DirOf(SubSeq(path, 1, Len(path) - 1))

\* c.BaseURL.Parse(ref): a relative path is resolved against the base's
\* directory; the query is the reference's
ResolveReference(base, ref) ==
    [Scheme |-> base.Scheme, Host |-> base.Host,
     Path |-> DirOf(base.Path) \o ref.Path, RawQuery |-> ref.RawQuery]

\* a *http.Request; isNil is the nil pointer
Request(isNil, method, url, header) ==
    [isNil |-> isNil, Method |-> method, URL |-> url, Header |-> header]

NilRequest ==
    Request(TRUE, "", [Scheme |-> "", Host |-> "", Path |-> <<>>, RawQuery |-> <<>>],
            EmptyObject)

NoHeader == [k \in {} |-> ""]

Headers(c, hasBody) ==
    (IF hasBody THEN "Content-Type" :> "application/json" ELSE NoHeader)
    @@ ("Authorization" :> ("Bearer " \o c.AccessToken))
    @@ ("Harvest-Account-Id" :> c.AccountId)
    @@ (IF c.UserAgent # "" THEN "User-Agent" :> c.UserAgent ELSE NoHeader)

\* what NewRequest returns, and the Client as the call leaves it
Built(request, err, c) == [req |-> request, err |-> err, client |-> c]

\* a NewRequest that resolves the reference in place, into c.BaseURL
NewRequestInPlace(c, method, ref, hasBody) ==
    IF ~HasSuffixSlash(c.BaseURL.Path)
    THEN Built(NilRequest, Err("BaseURL must have a trailing slash", 0, "", ""), c)
    ELSE LET u == ResolveReference(c.BaseURL,
                                   Ref(defaultApiVersion \o ref.Path, ref.RawQuery))
         IN  Built(Request(FALSE, method, u, Headers(c, hasBody)), NoErr,
                   [c EXCEPT !.BaseURL.Path = u.Path])

NewRequest(c, method, ref, hasBody) ==
    IF ~HasSuffixSlash(c.BaseURL.Path)
    THEN Built(NilRequest, Err("BaseURL must have a trailing slash", 0, "", ""), c)
    ELSE LET u == ResolveReference(c.BaseURL,
                                   Ref(defaultApiVersion \o ref.Path, ref.RawQuery))
         IN  Built(Request(FALSE, method, u, Headers(c, hasBody)), NoErr, c)

----------------------------------------------------------------------------
(* The resource operation *)

\* what List returns
Returned(entries, resp, err) == [entries |-> entries, resp |-> resp, err |-> err]

NoReturn == Returned(NilSlice, NilResponse, NoErr)

\* List up to the call of Do
ListRequest(c, o) == NewRequest(c, "GET", addOptions(<<"time_entries">>, o), FALSE)

\* List from the return of Do on
ListAfterDo(d) ==
    IF IsErr(d.err)
    THEN Returned(NilSlice, d.resp, d.err)
    ELSE Returned(d.v.TimeEntries, populatePageValues(d.resp, d.v.Pagination), NoErr)

\* List as one function of its arguments, the Client it reads, and what the
\* transport returns (out) under the context as it is then (c)
List(cl, c, o, out) ==
    LET built == ListRequest(cl, o)
    IN  IF IsErr(built.err)
        THEN Returned(NilSlice, NilResponse, built.err)
        ELSE ListAfterDo(Do(c, out, "struct", ZeroPage))

----------------------------------------------------------------------------
(* The inputs the model draws from *)

AccessTokens == {"token-a", "token-b"}
AccountIds == {"4711"}

\* the default, a test server's root, and a base URL without the trailing
\* slash NewRequest asks for
BaseURLs ==
    {defaultBaseURL,
     [Scheme |-> "http", Host |-> "127.0.0.1", Path |-> <<"/", "api", "/">>],
     [Scheme |-> "https", Host |-> "api.harvestapp.com", Path |-> <<"/", "api">>]}

UserAgents == {userAgent, ""}

Contexts == {"nil", "live", "canceled", "deadline"}

OptionsAll ==
    {NilOptions}
    \cup {Options(FALSE, f, t, p, pp) :
            f \in {"", "20240101", "1 jan"}, t \in {"", "20240115"},
            p \in {0, 2}, pp \in {0, 100}}

StatusCodes == {199, 200, 201, StatusAccepted, 204, StatusSuccessHigh, 300,
                StatusUnauthorized, 403, 404, 500}

\* an optional number of a body: <<>> when the key is missing
OptPages == {<<>>} \cup {<<n>> : n \in (0 - 1)..MaxPage}

EntryIds == {636709344, 636709345}

\* the arrays of time entries a body may hold
EntrySeqs == UNION {[1..n -> EntryIds] : n \in 0..MaxEntries}

PageObject(p, t, e) ==
    Body("object",
         (IF p # <<>> THEN "page" :> JNum(p[1]) ELSE EmptyObject)
         @@ (IF t # <<>> THEN "total_pages" :> JNum(t[1]) ELSE EmptyObject)
         @@ (IF e # <<>> THEN "time_entries" :> JArr(e[1]) ELSE EmptyObject))

ErrorObject(code, desc) ==
    Body("object",
         (IF code # <<>> THEN "error" :> code[1] ELSE EmptyObject)
         @@ (IF desc # <<>> THEN "error_description" :> desc[1] ELSE EmptyObject))

PageBodies ==
    {PageObject(p, t, <<<<636709344>>>>) : p \in OptPages, t \in OptPages}
    \cup {PageObject(<<>>, <<>>, <<e>>) : e \in EntrySeqs}
    \cup {PageObject(<<1>>, <<MaxPage>>, <<>>)}
    \* "page" holds a string, "time_entries" an array
    \cup {Body("object", ("page" :> JStr("2")) @@ ("total_pages" :> JNum(MaxPage))
                         @@ ("time_entries" :> JArr(<<636709344>>)))}

ErrorBodies ==
    {ErrorObject(c, d) : c \in {<<>>, <<JStr("invalid_token")>>},
                         d \in {<<>>, <<JStr("The access token expired")>>}}
    \* "error" holds a number
    \cup {ErrorObject(<<JNum(7)>>, <<JStr("The access token expired")>>)}

Bodies ==
    {EmptyBody, MalformedBody, UnreadableBody, NonObjectBody}
    \cup PageBodies \cup ErrorBodies

\* the smaller sets the concurrent specification draws from
ContextsConc == {"live"}
OptionsConc == {NilOptions, Options(FALSE, "", "", 2, 0)}
StatusCodesConc == {200, StatusUnauthorized}
BodiesConc ==
    {PageObject(<<2>>, <<MaxPage>>, <<<<636709344>>>>),
     ErrorObject(<<JStr("invalid_token")>>, <<>>)}

----------------------------------------------------------------------------
(* The state machine *)

Init ==
    /\ client \in {NewClient(t, a) : t \in AccessTokens, a \in AccountIds}
    /\ configured = client
    /\ started = FALSE
    /\ pc = [i \in Calls |-> "idle"]
    /\ ctx = [i \in Calls |-> "nil"]
    /\ opts = [i \in Calls |-> NilOptions]
    /\ req = [i \in Calls |-> NilRequest]
    /\ ctxAtDispatch = [i \in Calls |-> "nil"]
    /\ transportCalls = [i \in Calls |-> 0]
    /\ net = [i \in Calls |-> NotSent]
    /\ page = [i \in Calls |-> ZeroPage]
    /\ ret = [i \in Calls |-> NoReturn]

\* the caller sets the exported fields BaseURL and UserAgent before the
\* first request
Configure ==
    /\ ~started
    /\ \E b \in BaseURLs, a \in UserAgents :
         /\ client' = [client EXCEPT !.BaseURL = b, !.UserAgent = a]
         /\ client' # client
    /\ configured' = client'
    /\ UNCHANGED <<started, pc, ctx, opts, req, ctxAtDispatch, transportCalls, net, page, ret>>

\* List is called with context c and options o: addOptions, NewRequest and
\* Do up to the transport call
ListCall(i, contexts, options) ==
    /\ pc[i] = "idle"
    /\ \E c \in contexts, o \in options :
         LET built == ListRequest(client, o)
         IN  /\ started' = TRUE
             /\ client' = built.client
             /\ UNCHANGED configured
             /\ ctx' = [ctx EXCEPT ![i] = c]
             /\ opts' = [opts EXCEPT ![i] = o]
             /\ req' = [req EXCEPT ![i] = built.req]
             /\ net' = [net EXCEPT ![i] = NotSent]
             /\ IF IsErr(built.err)
                THEN /\ pc' = [pc EXCEPT ![i] = "done"]
                     /\ ret' = [ret EXCEPT ![i] = Returned(NilSlice, NilResponse, built.err)]
                     /\ UNCHANGED <<ctxAtDispatch, transportCalls, page>>
                ELSE IF CtxMissing(c)
                THEN LET d == Do(c, NotSent, "struct", ZeroPage)
                     IN  /\ pc' = [pc EXCEPT ![i] = "done"]
                         /\ page' = [page EXCEPT ![i] = d.v]
                         /\ ret' = [ret EXCEPT ![i] = ListAfterDo(d)]
                         /\ UNCHANGED <<ctxAtDispatch, transportCalls>>
                ELSE /\ pc' = [pc EXCEPT ![i] = "inflight"]
                     /\ ctxAtDispatch' = [ctxAtDispatch EXCEPT ![i] = c]
                     /\ transportCalls' = [transportCalls EXCEPT ![i] = @ + 1]
                     /\ UNCHANGED <<page, ret>>

\* the transport returns a response: the rest of Do, then of List
TransportRespond(i, statuses, bodies) ==
    /\ pc[i] = "inflight"
    /\ \E s \in statuses, b \in bodies :
         LET d == Do(ctx[i], Answered(s, b), "struct", page[i])
         IN  /\ net' = [net EXCEPT ![i] = Answered(s, b)]
             /\ page' = [page EXCEPT ![i] = d.v]
             /\ ret' = [ret EXCEPT ![i] = ListAfterDo(d)]
    /\ pc' = [pc EXCEPT ![i] = "done"]
    /\ UNCHANGED <<client, configured, started, ctx, opts, req, ctxAtDispatch, transportCalls>>

\* the transport returns an error: the rest of Do, then of List
TransportFail(i) ==
    /\ pc[i] = "inflight"
    /\ LET d == Do(ctx[i], Failed, "struct", page[i])
       IN  /\ net' = [net EXCEPT ![i] = Failed]
           /\ page' = [page EXCEPT ![i] = d.v]
           /\ ret' = [ret EXCEPT ![i] = ListAfterDo(d)]
    /\ pc' = [pc EXCEPT ![i] = "done"]
    /\ UNCHANGED <<client, configured, started, ctx, opts, req, ctxAtDispatch, transportCalls>>

\* the caller cancels the context of a call in flight, or its deadline passes
CancelCtx(i) ==
    /\ pc[i] = "inflight"
    /\ ctx[i] = "live"
    /\ \E c \in {"canceled", "deadline"} : ctx' = [ctx EXCEPT ![i] = c]
    /\ UNCHANGED <<client, configured, started, pc, opts, req, ctxAtDispatch, transportCalls, net, page,
                   ret>>

\* the caller takes the result; the call's locals are gone
Return(i) ==
    /\ pc[i] = "done"
    /\ pc' = [pc EXCEPT ![i] = "idle"]
    /\ ctx' = [ctx EXCEPT ![i] = "nil"]
    /\ opts' = [opts EXCEPT ![i] = NilOptions]
    /\ req' = [req EXCEPT ![i] = NilRequest]
    /\ ctxAtDispatch' = [ctxAtDispatch EXCEPT ![i] = "nil"]
    /\ transportCalls' = [transportCalls EXCEPT ![i] = 0]
    /\ net' = [net EXCEPT ![i] = NotSent]
    /\ page' = [page EXCEPT ![i] = ZeroPage]
    /\ ret' = [ret EXCEPT ![i] = NoReturn]
    /\ UNCHANGED <<client, configured, started>>

\* one caller at a time, every input
Next ==
    \/ Configure
    \/ ListCall(1, Contexts, OptionsAll)
    \/ TransportRespond(1, StatusCodes, Bodies)
    \/ TransportFail(1)
    \/ CancelCtx(1)
    \/ Return(1)

Spec == Init /\ [][Next]_vars

\* NCalls callers sharing the client, fewer inputs
NextConc ==
    \/ Configure
    \/ \E i \in Calls :
         \/ ListCall(i, ContextsConc, OptionsConc)
         \/ TransportRespond(i, StatusCodesConc, BodiesConc)
         \/ TransportFail(i)
         \/ CancelCtx(i)
         \/ Return(i)

SpecConc == Init /\ [][NextConc]_vars

----------------------------------------------------------------------------
(* What the properties below read off a state *)

Done(i) == pc[i] = "done"

\* call i's transport returned a response
GotResponse(i) == Done(i) /\ net[i].ok

StatusOf(i) == net[i].resp.StatusCode
BodyOf(i) == net[i].resp.Body

\* List returned no error
Succeeded(i) == Done(i) /\ ~IsErr(ret[i].err)

\* the string a body gives for key k: "" unless the body is a JSON object
\* holding a string under k
BodyString(b, k) ==
    IF b.kind = "object" /\ k \in DOMAIN b.fields /\ b.fields[k].t = "str"
    THEN b.fields[k].s
    ELSE ""

\* the number a body gives for key k: 0 unless the body is a JSON object
\* holding a number under k
BodyNumber(b, k) ==
    IF b.kind = "object" /\ k \in DOMAIN b.fields /\ b.fields[k].t = "num"
    THEN b.fields[k].n
    ELSE 0

NumberKeys ==
    {"per_page", "total_pages", "total_entries", "next_page", "previous_page", "page"}

\* the body is a JSON object every field of which has the type Page wants
DecodesAsPage(b) ==
    /\ b.kind = "object"
    /\ \A k \in DOMAIN b.fields :
         \/ k \in NumberKeys /\ b.fields[k].t = "num"
         \/ k = "time_entries" /\ b.fields[k].t = "arr"
         \/ k \notin NumberKeys \cup {"time_entries"}

Min2(a, b) == IF a < b THEN a ELSE b
Max2(a, b) == IF a > b THEN a ELSE b

PagesUnset(r) ==
    r.FirstPage = 0 /\ r.LastPage = 0 /\ r.NextPage = 0 /\ r.PreviousPage = 0

----------------------------------------------------------------------------
(* C1 *)

\* C1: CheckResponse returns no error for a status c with 200 <= c <= 299
\* and c # 202, and an error for c = 202 and for every c outside [200,299].
C1_StatusClassification ==
    \A i \in Calls :
        GotResponse(i) =>
            LET c == StatusOf(i)
                inRange == 200 <= c /\ c <= 299
            IN  /\ (inRange /\ c # StatusAccepted) => ~IsErr(CheckResponse(net[i].resp))
                /\ (c = StatusAccepted \/ ~inRange) => IsErr(CheckResponse(net[i].resp))

----------------------------------------------------------------------------
(* C2 *)

\* C2: a call whose context was cancelled (or timed out) before the request
\* was dispatched returns the context's error, whatever the transport
\* returned.
C2_CancelledBeforeDispatch ==
    \A i \in Calls :
        (Done(i) /\ transportCalls[i] > 0 /\ CtxDone(ctxAtDispatch[i])) =>
            ret[i].err = CtxErr(ctxAtDispatch[i])

----------------------------------------------------------------------------
(* C3 *)

\* C3: for an envelope with page p and total pages t, 1 <= p <= t, the
\* wrapper holds FirstPage = 1, LastPage = t, NextPage = min(p+1, t) and
\* PreviousPage = max(p-1, 1).
C3_PageValuesInRange ==
    \A i \in Calls :
        Succeeded(i) =>
            LET p == page[i].Pagination.Page
                t == page[i].Pagination.TotalPages
                r == ret[i].resp
            IN  (1 <= p /\ p <= t) =>
                    /\ r.FirstPage = 1
                    /\ r.LastPage = t
                    /\ r.NextPage = Min2(p + 1, t)
                    /\ r.PreviousPage = Max2(p - 1, 1)
                    /\ (p = 1 => r.PreviousPage = 1)
                    /\ (p = t => r.NextPage = t)

\* a call that returned the first page of several, and one the last
C3_Witness ==
    \E i \in Calls :
        /\ Succeeded(i)
        /\ BodyNumber(BodyOf(i), "page") = 1
        /\ BodyNumber(BodyOf(i), "total_pages") >= 2
        /\ page[i].Pagination.Page = 1
        /\ ret[i].resp.PreviousPage = 1
        /\ ret[i].resp.NextPage = 2

----------------------------------------------------------------------------
(* C4 *)

\* C4: the error of a response CheckResponse classifies as a failure is an
\* AuthError exactly when the status is 401 and an ErrorResponse otherwise;
\* it carries the error code and description of the body, both empty when
\* the body is not valid JSON, and no other error is raised.
C4_ErrorVariant ==
    \A i \in Calls :
        (GotResponse(i) /\ IsErr(CheckResponse(net[i].resp))) =>
            LET e == ret[i].err
                b == BodyOf(i)
            IN  /\ e.type \in {"AuthError", "ErrorResponse"}
                /\ (e.type = "AuthError") <=> (StatusOf(i) = 401)
                /\ e.StatusCode = StatusOf(i)
                /\ e.ErrorCode = BodyString(b, "error")
                /\ e.ErrorDescription = BodyString(b, "error_description")
                /\ (b.kind \in {"empty", "malformed", "readerr"}) =>
                       (e.ErrorCode = "" /\ e.ErrorDescription = "")

\* a 401 with an error envelope, and the call returned it as an AuthError
C4_Witness ==
    \E i \in Calls :
        /\ GotResponse(i)
        /\ StatusOf(i) = 401
        /\ BodyString(BodyOf(i), "error") = "invalid_token"
        /\ ret[i].err.type = "AuthError"
        /\ ret[i].err.ErrorCode = "invalid_token"

----------------------------------------------------------------------------
(* C5 *)

\* C5: on a success status, with the struct destination List hands to Do,
\* an empty body gives no error and leaves the destination at its zero
\* value; a body that is not empty and is not valid JSON for the
\* destination gives a decode error.
C5_EmptyBodyAndDecodeError ==
    \A i \in Calls :
        (GotResponse(i) /\ StatusOf(i) >= 200 /\ StatusOf(i) <= 299) =>
            LET b == BodyOf(i)
            IN  /\ b.kind = "empty" => (~IsErr(ret[i].err) /\ page[i] = ZeroPage)
                /\ (b.kind \in {"malformed", "nonobject"}
                    \/ (b.kind = "object" /\ ~DecodesAsPage(b))) =>
                       ret[i].err.type \in {"json.SyntaxError", "json.UnmarshalTypeError"}

\* a 200 with an empty body, returned without an error
C5_Witness ==
    \E i \in Calls :
        /\ GotResponse(i)
        /\ StatusOf(i) = 200
        /\ BodyOf(i).kind = "empty"
        /\ ~IsErr(ret[i].err)
        /\ page[i] = ZeroPage

----------------------------------------------------------------------------
(* C6 *)

\* the values the query string q gives for key k, as the server reads them
QueryParam(q, k) == {QueryUnescape(q[j].value) : j \in {n \in 1..Len(q) : q[n].key = k}}

\* how often key k occurs in q
QueryCount(q, k) == Cardinality({n \in 1..Len(q) : q[n].key = k})

\* strconv.Atoi on the numbers of the model
Atoi(str) == CHOOSE n \in 0..100 : ToString(n) = str

\* C6: the query string of the request List issues holds from, to, page,
\* per_page exactly when that field is not empty / not zero, with the
\* field's value, and nothing else; no field set gives the empty query,
\* Page = 2 alone gives exactly page=2, and nil options give no query.
C6_QueryString ==
    \A i \in Calls :
        ~req[i].isNil =>
            LET q == req[i].URL.RawQuery
                o == opts[i]
            IN  /\ o.isNil => q = <<>>
                /\ \A n \in 1..Len(q) : q[n].key \in {"from", "to", "page", "per_page"}
                /\ \A k \in {"from", "to", "page", "per_page"} : QueryCount(q, k) <= 1
                /\ QueryParam(q, "from") = (IF o.From # "" THEN {o.From} ELSE {})
                /\ QueryParam(q, "to") = (IF o.To # "" THEN {o.To} ELSE {})
                /\ {Atoi(v) : v \in QueryParam(q, "page")}
                       = (IF o.Page # 0 THEN {o.Page} ELSE {})
                /\ {Atoi(v) : v \in QueryParam(q, "per_page")}
                       = (IF o.PerPage # 0 THEN {o.PerPage} ELSE {})
                /\ (o.From = "" /\ o.To = "" /\ o.Page = 0 /\ o.PerPage = 0) => q = <<>>
                /\ (o.From = "" /\ o.To = "" /\ o.Page = 2 /\ o.PerPage = 0) =>
                       q = <<[key |-> "page", value |-> "2"]>>

\* the request of the repository's test: Page = 2 alone
C6_Witness ==
    \E i \in Calls :
        /\ ~req[i].isNil
        /\ opts[i] = Options(FALSE, "", "", 2, 0)
        /\ req[i].URL.RawQuery = <<[key |-> "page", value |-> "2"]>>
        /\ req[i].URL.Path = <<"/", "v2", "/", "time_entries">>

----------------------------------------------------------------------------
(* C7 *)

\* a success status as the specification has it: 2xx but not 202
SuccessStatusButAccepted(c) == 200 <= c /\ c <= 299 /\ c # StatusAccepted

\* the time entries of a body: the nil slice unless the key is there
BodyEntries(b) ==
    IF b.kind = "object" /\ "time_entries" \in DOMAIN b.fields
    THEN Slice(FALSE, b.fields["time_entries"].a)
    ELSE NilSlice

\* the error of the first stage of call i that failed
IsStageError(i, e) ==
    IF req[i].isNil THEN e.type = "BaseURL must have a trailing slash"
    ELSE IF transportCalls[i] = 0 THEN e.type = "context must be non-nil"
    ELSE IF ~net[i].ok THEN e.type \in CtxErrorTypes \cup {"url.Error"}
    ELSE IF IsErr(CheckResponse(net[i].resp)) THEN e = CheckResponse(net[i].resp)
    ELSE e.type \in {"read", "json.SyntaxError", "json.UnmarshalTypeError"}

\* List fully succeeds or fully fails, success(c) saying which statuses are
\* success statuses
AllOrNothing(success(_)) ==
    \A i \in Calls :
        Done(i) =>
            LET ok == /\ ~req[i].isNil
                      /\ net[i].ok
                      /\ success(StatusOf(i))
                      /\ (BodyOf(i).kind = "empty" \/ DecodesAsPage(BodyOf(i)))
                r == ret[i]
            IN  /\ ~IsErr(r.err) <=> ok
                /\ ok => /\ r.entries = BodyEntries(BodyOf(i))
                         /\ ~r.resp.isNil
                         /\ r.resp.FirstPage = 1
                         /\ r.resp.LastPage = BodyNumber(BodyOf(i), "total_pages")
                /\ ~ok => /\ r.entries = NilSlice
                          /\ PagesUnset(r.resp)
                          /\ IsStageError(i, r.err)

\* C7: List returns a nil error exactly when the request was built, the
\* transport returned a success status and the body decoded or was empty,
\* and then returns the entries in the body's order with the page numbers
\* populated; otherwise it returns nil entries, the failing stage's error,
\* and a wrapper whose page numbers are not populated.
C7_ListAllOrNothing == AllOrNothing(SuccessStatusButAccepted)

\* the same with the statuses CheckResponse lets pass, 202 among them
ListAllOrNothingAsClassified == AllOrNothing(StatusIsSuccess)

----------------------------------------------------------------------------
(* C8 *)

\* every call's request and result are those of the call run alone on the
\* Client as it was configured
CallsIndependent ==
    \A i \in Calls :
        /\ pc[i] # "idle" => req[i] = ListRequest(configured, opts[i]).req
        /\ Done(i) => ret[i] = List(configured, ctx[i], opts[i], net[i])

\* C8: no step of a call writes a field of the Client, and under every
\* interleaving of the calls sharing it each call's request and result are
\* what the call gives when run alone.
C8_ClientNotWritten == client = configured /\ CallsIndependent

\* two calls in flight at once on the one client, with different requests
C8_Witness ==
    /\ pc[1] = "inflight"
    /\ pc[2] = "inflight"
    /\ opts[1] # opts[2]
    /\ req[1].URL # req[2].URL
    /\ req[1].Header["Authorization"] = "Bearer " \o client.AccessToken

----------------------------------------------------------------------------
(* C9 *)

\* C9: when the transport call fails, Do returns the context's error if the
\* context is done then and the transport's error otherwise, with a nil
\* wrapper and the destination untouched; with a nil context Do fails with
\* the context-missing error and the transport is never invoked.
C9_TransportFailure ==
    \A i \in Calls :
        /\ (Done(i) /\ transportCalls[i] > 0 /\ ~net[i].ok) =>
               /\ CtxDone(ctx[i]) =>
                      /\ ret[i].err.type \in CtxErrorTypes
                      /\ (ret[i].err.type = "context.Canceled") <=> (ctx[i] = "canceled")
               /\ ~CtxDone(ctx[i]) => ret[i].err.type = "url.Error"
               /\ ret[i].resp.isNil
               /\ page[i] = ZeroPage
        /\ (Done(i) /\ ~req[i].isNil /\ ctx[i] = "nil") =>
               /\ ret[i].err.type = "context must be non-nil"
               /\ transportCalls[i] = 0
               /\ net[i] = NotSent
        /\ (pc[i] = "inflight") => ctx[i] # "nil"

\* the context was live at dispatch, was cancelled in flight, and the
\* failing transport call came back as the context's error
C9_Witness ==
    \E i \in Calls :
        /\ Done(i)
        /\ transportCalls[i] > 0
        /\ ~net[i].ok
        /\ ctxAtDispatch[i] = "live"
        /\ ctx[i] = "canceled"
        /\ ret[i].err.type = "context.Canceled"

----------------------------------------------------------------------------
(* C10 *)

PagesOrdered(r) ==
    /\ r.FirstPage = 1
    /\ r.FirstPage <= r.PreviousPage
    /\ r.PreviousPage <= r.NextPage
    /\ r.NextPage <= r.LastPage

\* C10 as stated: after every successful List, whatever envelope the
\* server sent, 1 = FirstPage <= PreviousPage <= NextPage <= LastPage.
C10_PagesOrderedAlways ==
    \A i \in Calls : Succeeded(i) => PagesOrdered(ret[i].resp)

\* C10, amended: after a successful List whose envelope has total pages
\* t >= 1 and page p with 0 <= p <= t + 1,
\* 1 = FirstPage <= PreviousPage <= NextPage <= LastPage.
C10_PagesOrderedInRange ==
    \A i \in Calls :
        Succeeded(i) =>
            LET p == BodyNumber(BodyOf(i), "page")
                t == BodyNumber(BodyOf(i), "total_pages")
            IN  (t >= 1 /\ 0 <= p /\ p <= t + 1) => PagesOrdered(ret[i].resp)

\* a successful call for the page after the last one
C10_Witness ==
    \E i \in Calls :
        /\ Succeeded(i)
        /\ BodyNumber(BodyOf(i), "total_pages") = 1
        /\ BodyNumber(BodyOf(i), "page") = 2
        /\ ret[i].resp.PreviousPage = 1
        /\ ret[i].resp.NextPage = 1
        /\ ret[i].resp.LastPage = 1
====
